---- MODULE Spec2Model ----
(***************************************************************************)
(* Model of the ROM parser of oxide64 (src/src/rom/mod.rs): classification *)
(* of a raw cartridge image by its first byte, normalisation to the        *)
(* canonical byte order, the split into header and body, the construction  *)
(* of InternalHeader and the header's field accessors.                     *)
(*                                                                         *)
(* Bytes are the integers 0..255.  A Vec<u8> is a sequence; the Rust index *)
(* k is the TLA+ index k + 1.  A call that panics yields an outcome marked *)
(* as a panic instead of a value.  An unsigned integer wider than 16 bits  *)
(* is the tuple of its 16-bit limbs, most significant first (a u32 has two *)
(* limbs, a u64 four), so that widening and byte order are visible.        *)
(***************************************************************************)
EXTENDS Integers, Sequences, FiniteSets, TLC

VARIABLES data, call, ret

vars == <<data, call, ret>>

(***************************************************************************)
(* Program constants.                                                      *)
(***************************************************************************)
HEADER_SIZE == 4096

HEADER_NATIVE == <<128, 55, 18, 64>>          \* 0x80 0x37 0x12 0x40

HEADER_BYTE_SWAPPED == <<55, 128, 64, 18>>    \* 0x37 0x80 0x40 0x12

HEADER_LITTLE_ENDIAN == <<64, 18, 55, 128>>   \* 0x40 0x12 0x37 0x80

Endian == {"Little", "Native", "ByteSwapped"}

None == "None"

(***************************************************************************)
(* Bounds of the model.                                                    *)
(***************************************************************************)
\* Buffers shorter than a header have 0..MaxShort bytes, or HEADER_SIZE - 1.
MaxShort == 2

\* Images with a full header carry a body of 0..MaxBody bytes.
MaxBody == 2

\* The byte-swap loop is evaluated in runs of Chunk iterations.
Chunk == 64

(***************************************************************************)
(* Endian::from_u8                                                         *)
(***************************************************************************)
from_u8_DefaultNative(val) ==
    IF val = HEADER_NATIVE[1] THEN "Native"
    ELSE IF val = HEADER_BYTE_SWAPPED[1] THEN "ByteSwapped"
    ELSE IF val = HEADER_LITTLE_ENDIAN[1] THEN "Little"
    ELSE "Native"

from_u8(val) ==
    IF val = HEADER_NATIVE[1] THEN "Native"
    ELSE IF val = HEADER_BYTE_SWAPPED[1] THEN "ByteSwapped"
    ELSE IF val = HEADER_LITTLE_ENDIAN[1] THEN "Little"
    ELSE None

(***************************************************************************)
(* Normalisation: the match of parse, lines 163-178.                       *)
(***************************************************************************)
NormOk(d) == [panic |-> FALSE, data |-> d]

NormPanic(d) == [panic |-> TRUE, data |-> d]

\* Vec::swap(a, b) with Rust indices a, b: panics when an index is out of bounds.
Swap(d, a, b) ==
    IF a >= Len(d) \/ b >= Len(d)
    THEN NormPanic(d)
    ELSE NormOk([d EXCEPT ![a + 1] = d[b + 1], ![b + 1] = d[a + 1]])

\* The iterations of `while i < data.len() { data.swap(i, i + 1); i += 2; }`
\* from i on, stopping early at index stop.
RECURSIVE SwapIter(_, _, _)
SwapIter(d, i, stop) ==
    IF i < Len(d) /\ i < stop
    THEN LET s == Swap(d, i, i + 1)
         IN  IF s.panic
             THEN [panic |-> TRUE, data |-> d, i |-> i]
             ELSE SwapIter(s.data, i + 2, stop)
    ELSE [panic |-> FALSE, data |-> d, i |-> i]

\* The whole loop, run after run.
RECURSIVE SwapLoop(_, _)
SwapLoop(d, i) ==
    IF i < Len(d)
    THEN LET r == SwapIter(d, i, i + 2 * Chunk)
         IN  IF r.panic THEN NormPanic(r.data) ELSE SwapLoop(r.data, r.i)
    ELSE NormOk(d)

\* The sequence with the values of f, a function on 1..Len(f).
AsVec(f) == SubSeq(f, 1, Len(f))

\* Vec::reverse
Reverse(d) ==
    LET n == Len(d)
    IN  AsVec([k \in 1..n |-> d[n + 1 - k]])

Normalize_SwapSkipped(e, d) ==
    IF e = "Native" THEN NormOk(d)
    ELSE IF e = "ByteSwapped" THEN NormOk(d)
    ELSE NormOk(Reverse(d))

Normalize(e, d) ==
    IF e = "Native" THEN NormOk(d)
    ELSE IF e = "ByteSwapped" THEN SwapLoop(d, 0)
    ELSE NormOk(Reverse(d))

(***************************************************************************)
(* InternalHeader::new                                                     *)
(***************************************************************************)
InvalidHeaderSize(actual, expected) == <<"invalid header size", actual, expected>>

UnknownHeader(byte) == <<"unknown header", byte>>

NoError == <<>>

New_AtLeast(d) ==
    IF Len(d) < HEADER_SIZE
    THEN [ok |-> FALSE, data |-> <<>>, err |-> InvalidHeaderSize(Len(d), HEADER_SIZE)]
    ELSE [ok |-> TRUE, data |-> d, err |-> NoError]

New(d) ==
    IF Len(d) # HEADER_SIZE
    THEN [ok |-> FALSE, data |-> <<>>, err |-> InvalidHeaderSize(Len(d), HEADER_SIZE)]
    ELSE [ok |-> TRUE, data |-> d, err |-> NoError]

(***************************************************************************)
(* read_u32 / read_u64: byteorder's ReadBytesExt on a byte slice, unwrapped.*)
(* read_exact fills a buffer of 4 (8) bytes and fails with UnexpectedEof   *)
(* when the slice is shorter; unwrap() turns that failure into a panic.    *)
(***************************************************************************)
IntPanic == [panic |-> TRUE, value |-> <<>>]

IntOk(v) == [panic |-> FALSE, value |-> v]

\* &data[a..b] with Rust indices: the bytes a, a + 1, ..., b - 1.
Slice(d, a, b) == SubSeq(d, a + 1, b)

\* The 16-bit big-endian limb made of two bytes.
Limb(hi, lo) == hi * 256 + lo

read_u32(s) ==
    IF Len(s) < 4
    THEN IntPanic
    ELSE IntOk(<<Limb(s[1], s[2]), Limb(s[3], s[4])>>)

read_u64(s) ==
    IF Len(s) < 8
    THEN IntPanic
    ELSE IntOk(<<Limb(s[1], s[2]), Limb(s[3], s[4]), Limb(s[5], s[6]), Limb(s[7], s[8])>>)

(***************************************************************************)
(* The accessors of InternalHeader, on the header's bytes h.               *)
(***************************************************************************)
pi_bsb_dom1_lat_reg(h) == h[1]

pi_bsd_dom1_pgs_reg(h) == h[2]

pi_bsd_dom1_pwd_reg(h) == h[3]

pi_bsb_dom1_pgs_reg(h) == h[4]

clock_rate(h) == read_u64(Slice(h, 4, 8))

pc(h) == read_u64(Slice(h, 8, 12))

release(h) == read_u64(Slice(h, 8, 12))

crc1(h) == read_u64(Slice(h, 16, 20))

crc2(h) == read_u64(Slice(h, 20, 24))

unknown_1(h) == <<read_u64(Slice(h, 24, 28)), read_u64(Slice(h, 28, 32))>>

image_name(h) == Slice(h, 32, 51)

unknown_2(h) == read_u64(Slice(h, 52, 56))

manufactorer_id(h) == read_u64(Slice(h, 56, 60))

cartridge_id(h) == read_u32(Slice(h, 60, 62))

country_code(h) == read_u32(Slice(h, 62, 64))

boot_code(h) == Slice(h, 64, HEADER_SIZE)

\* Every accessor called on one header.
Accessors(h) ==
    [header              |-> h,
     pi_bsb_dom1_lat_reg |-> pi_bsb_dom1_lat_reg(h),
     pi_bsd_dom1_pgs_reg |-> pi_bsd_dom1_pgs_reg(h),
     pi_bsd_dom1_pwd_reg |-> pi_bsd_dom1_pwd_reg(h),
     pi_bsb_dom1_pgs_reg |-> pi_bsb_dom1_pgs_reg(h),
     clock_rate          |-> clock_rate(h),
     pc                  |-> pc(h),
     release             |-> release(h),
     crc1                |-> crc1(h),
     crc2                |-> crc2(h),
     unknown_1           |-> unknown_1(h),
     image_name          |-> image_name(h),
     unknown_2           |-> unknown_2(h),
     manufactorer_id     |-> manufactorer_id(h),
     cartridge_id        |-> cartridge_id(h),
     country_code        |-> country_code(h),
     boot_code           |-> boot_code(h)]

(***************************************************************************)
(* parse.  The outcome records which stages were entered, in order.        *)
(***************************************************************************)
Rom(header, body, trace) ==
    [kind |-> "ok", header |-> header, body |-> body, err |-> NoError, trace |-> trace]

Failure(err, trace) ==
    [kind |-> "err", header |-> <<>>, body |-> <<>>, err |-> err, trace |-> trace]

Panic(trace) ==
    [kind |-> "panic", header |-> <<>>, body |-> <<>>, err |-> NoError, trace |-> trace]

\* Vec::split_off(at): panics when at > len; the vector keeps [0, at) and the
\* tail [at, len) is returned.
SplitOff(d, at) ==
    IF at > Len(d)
    THEN [panic |-> TRUE, head |-> <<>>, tail |-> <<>>]
    ELSE [panic |-> FALSE, head |-> SubSeq(d, 1, at), tail |-> SubSeq(d, at + 1, Len(d))]

\* The split, the header construction and the result: lines 183-188.
Finish(d, trace) ==
    LET s == SplitOff(d, HEADER_SIZE)
    IN  IF s.panic
        THEN Panic(trace \o <<"split_off">>)
        ELSE LET h == New(s.head)
             IN  IF h.ok
                 THEN Rom(h.data, s.tail, trace \o <<"split_off", "new">>)
                 ELSE Failure(h.err, trace \o <<"split_off", "new">>)

Parse_NormalizeHeaderOnly(d) ==
    IF Len(d) = 0
    THEN Panic(<<>>)
    ELSE LET e == from_u8(d[1])
         IN  IF e = None
             THEN Failure(UnknownHeader(d[1]), <<"from_u8">>)
             ELSE LET s == SplitOff(d, HEADER_SIZE)
                      n == Normalize(e, s.head)
                  IN  IF s.panic \/ n.panic
                      THEN Panic(<<"from_u8", "split_off", "normalize">>)
                      ELSE Rom(n.data, s.tail, <<"from_u8", "split_off", "normalize", "new">>)

Parse(d) ==
    IF Len(d) = 0
    THEN Panic(<<>>)                                    \* data[0] is out of bounds
    ELSE LET e == from_u8(d[1])
         IN  IF e = None
             THEN Failure(UnknownHeader(d[1]), <<"from_u8">>)
             ELSE LET n == Normalize(e, d)
                  IN  IF n.panic
                      THEN Panic(<<"from_u8", "normalize">>)
                      ELSE Finish(n.data, <<"from_u8", "normalize">>)

(***************************************************************************)
(* The buffers a caller may supply.  A buffer is given by its length, its  *)
(* leading bytes and its trailing bytes; every other byte is a function of *)
(* its position, so that a moved byte is a changed byte.                   *)
(***************************************************************************)
Fill(i) == (i * 7 + 1) % 256

\* The header start of the field extraction example: magic, clock rate, pc.
ExampleHead == <<128, 55, 18, 64, 0, 0, 0, 15, 128, 0, 16, 0>>

\* The same twelve bytes as a byte-swapped dump holds them.
ExampleHeadSwapped == <<55, 128, 64, 18, 0, 0, 15, 0, 0, 128, 0, 16>>

\* Leading bytes: the three known orderings, and two unknown first bytes.
Heads ==
    {ExampleHead, ExampleHeadSwapped, HEADER_LITTLE_ENDIAN, <<0, 55, 18, 64>>, <<18>>}

\* Trailing bytes: none fixed, a last byte that is itself a magic byte, and
\* the native magic reversed (the end of a fully reversed native image).
Tails == {<<>>, <<64>>, <<55>>, <<64, 18, 55, 128>>}

Lengths ==
    (0..MaxShort) \cup {HEADER_SIZE - 1} \cup {HEADER_SIZE + k : k \in 0..MaxBody}

Buffer(len, head, tail) ==
    AsVec([k \in 1..len |->
            IF k <= Len(head) THEN head[k]
            ELSE IF k > len - Len(tail) THEN tail[k - (len - Len(tail))]
            ELSE Fill(k - 1)])

\* The other dumps of an image N, as the round-trip properties construct
\* them: adjacent pairs swapped (a final unpaired byte stays), and the whole
\* image reversed.
ByteSwappedDump(N) ==
    LET n == Len(N)
    IN  AsVec([k \in 1..n |->
                IF k % 2 = 1
                THEN (IF k + 1 <= n THEN N[k + 1] ELSE N[k])
                ELSE N[k - 1]])

LittleEndianDump(N) ==
    LET n == Len(N)
    IN  AsVec([k \in 1..n |-> N[n + 1 - k]])

(***************************************************************************)
(* The state machine: a caller owns a buffer and makes one call on it.     *)
(***************************************************************************)
NoCall == "none"

Init ==
    /\ \E len \in Lengths, head \in Heads, tail \in Tails :
            data = Buffer(len, head, tail)
    /\ call = NoCall
    /\ ret = <<>>

\* parse(data)
CallParse ==
    /\ call = NoCall
    /\ call' = "parse"
    /\ ret' = Parse(data)
    /\ UNCHANGED data

\* parse(data), then every accessor on the header of the returned ROM
\* (as tests::test_parse does with the first three).
CallParseAccessors ==
    /\ call = NoCall
    /\ LET rom == Parse(data)
       IN  /\ rom.kind = "ok"
           /\ ret' = Accessors(rom.header)
    /\ call' = "parse_accessors"
    /\ UNCHANGED data

\* InternalHeader::new(data)
CallNew ==
    /\ call = NoCall
    /\ call' = "new"
    /\ ret' = New(data)
    /\ UNCHANGED data

\* InternalHeader::new(data), then every accessor on the header.
CallAccessors ==
    /\ call = NoCall
    /\ LET header == New(data)
       IN  /\ header.ok
           /\ ret' = Accessors(header.data)
    /\ call' = "accessors"
    /\ UNCHANGED data

\* The normalisation of parse for one ordering, applied once and twice.
CallNormalize ==
    /\ call = NoCall
    /\ \E e \in Endian :
          LET once == Normalize(e, data)
              twice == IF once.panic THEN once ELSE Normalize(e, once.data)
          IN  ret' = [endian |-> e, once |-> once, twice |-> twice]
    /\ call' = "normalize"
    /\ UNCHANGED data

\* parse of an image and parse of its byte-swapped dump.
RoundTripByteSwapped ==
    /\ call = NoCall
    /\ call' = "roundtrip_byte_swapped"
    /\ ret' = [native |-> Parse(data), dumped |-> Parse(ByteSwappedDump(data))]
    /\ UNCHANGED data

\* parse of an image and parse of its fully reversed dump.
RoundTripLittleEndian ==
    /\ call = NoCall
    /\ call' = "roundtrip_little_endian"
    /\ ret' = [native |-> Parse(data), dumped |-> Parse(LittleEndianDump(data))]
    /\ UNCHANGED data

Next ==
    \/ CallParse
    \/ CallParseAccessors
    \/ CallNew
    \/ CallAccessors
    \/ CallNormalize
    \/ RoundTripByteSwapped
    \/ RoundTripLittleEndian

Spec == Init /\ [][Next]_vars

(***************************************************************************)
(* The claims.                                                             *)
(***************************************************************************)
MagicBytes == {HEADER_NATIVE[1], HEADER_BYTE_SWAPPED[1], HEADER_LITTLE_ENDIAN[1]}

\* A valid native-ordered image: a full header that starts with the native magic.
IsValidNative(d) == Len(d) >= HEADER_SIZE /\ SubSeq(d, 1, 4) = HEADER_NATIVE

\* The canonical form of an image, by the ordering its first byte names.
Canonical(d) ==
    IF d[1] = HEADER_NATIVE[1] THEN d
    ELSE IF d[1] = HEADER_BYTE_SWAPPED[1] THEN ByteSwappedDump(d)
    ELSE LittleEndianDump(d)

\* The unsigned 32-bit big-endian value of the bytes [a, a + 4) of h, widened
\* to 64 bits, and the 16-bit value of the bytes [a, a + 2) as a 32-bit value.
BigEndian32Widened(h, a) ==
    IntOk(<<0, 0, Limb(h[a + 1], h[a + 2]), Limb(h[a + 3], h[a + 4])>>)

BigEndian16(h, a) == IntOk(<<0, Limb(h[a + 1], h[a + 2])>>)

\* C1: for a valid native image N, parse of the full reverse of N succeeds
\* and yields the header, and so the field values, of parse(N).
C1_LittleEndianRoundTrip ==
    (call = "roundtrip_little_endian" /\ IsValidNative(data)) =>
        /\ ret.native.kind = "ok"
        /\ ret.dumped.kind = "ok"
        /\ ret.dumped.header = ret.native.header
        /\ Accessors(ret.dumped.header) = Accessors(ret.native.header)

\* C2: every integer accessor returns, without aborting, the unsigned
\* big-endian value of the bytes of its tabulated range; the example header
\* gives clock_rate() = 0x0000000F and pc() = release() = 0x80001000.
C2_FieldExtraction ==
    (call \in {"accessors", "parse_accessors"}) =>
        /\ ret.clock_rate = BigEndian32Widened(ret.header, 4)
        /\ ret.pc = BigEndian32Widened(ret.header, 8)
        /\ ret.release = BigEndian32Widened(ret.header, 8)
        /\ ret.crc1 = BigEndian32Widened(ret.header, 16)
        /\ ret.crc2 = BigEndian32Widened(ret.header, 20)
        /\ ret.unknown_2 = BigEndian32Widened(ret.header, 52)
        /\ ret.manufactorer_id = BigEndian32Widened(ret.header, 56)
        /\ ret.cartridge_id = BigEndian16(ret.header, 60)
        /\ ret.country_code = BigEndian16(ret.header, 62)
        /\ (SubSeq(ret.header, 1, 12) = ExampleHead =>
                /\ ret.clock_rate = IntOk(<<0, 0, 0, 15>>)
                /\ ret.pc = IntOk(<<0, 0, 32768, 4096>>)
                /\ ret.release = IntOk(<<0, 0, 32768, 4096>>))

\* C3: parse of a buffer shorter than 4096 bytes whose first byte is a known
\* magic byte returns the error InvalidHeaderSize(actual, 4096); it neither
\* returns a Rom nor aborts.
C3_ShortInputFails ==
    (/\ call = "parse"
     /\ Len(data) > 0
     /\ Len(data) < 4096
     /\ data[1] \in MagicBytes) =>
        /\ ret.kind = "err"
        /\ ret.err = InvalidHeaderSize(Len(data), 4096)

\* C4: a successful parse of an image of at least 4096 bytes that starts with
\* one of the three magic sequences yields a header whose first three bytes
\* read 0x80, 0x37, 0x12.
C4_CanonicalMagic ==
    (/\ call = "parse_accessors"
     /\ Len(data) >= 4096
     /\ SubSeq(data, 1, 4) \in
            {HEADER_NATIVE, HEADER_BYTE_SWAPPED, HEADER_LITTLE_ENDIAN}) =>
        /\ ret.pi_bsb_dom1_lat_reg = 128
        /\ ret.pi_bsd_dom1_pgs_reg = 55
        /\ ret.pi_bsd_dom1_pwd_reg = 18

\* C5: for a valid native image N of even length, parse of the byte-swapped
\* dump of N succeeds and yields the header bytes, the field values and the
\* body of parse(N).
C5_ByteSwappedRoundTrip ==
    (/\ call = "roundtrip_byte_swapped"
     /\ IsValidNative(data)
     /\ Len(data) % 2 = 0) =>
        /\ ret.native.kind = "ok"
        /\ ret.dumped.kind = "ok"
        /\ ret.dumped.header = ret.native.header
        /\ ret.dumped.body = ret.native.body
        /\ Accessors(ret.dumped.header) = Accessors(ret.native.header)

C5_Witness ==
    /\ call = "roundtrip_byte_swapped"
    /\ IsValidNative(data)
    /\ Len(data) = HEADER_SIZE + 2
    /\ ret.dumped.kind = "ok"
    /\ ret.dumped.body = SubSeq(data, HEADER_SIZE + 1, HEADER_SIZE + 2)
    /\ ret.dumped.body[1] # ret.dumped.body[2]

\* C6: parse of a non-empty buffer of any length whose first byte is none of
\* 0x80, 0x37, 0x40 fails with the unknown-magic error carrying that byte,
\* before any normalisation or size check, and produces no Rom.
C6_MagicRejection ==
    (/\ call = "parse"
     /\ Len(data) > 0
     /\ data[1] \notin {128, 55, 64}) =>
        /\ ret.kind = "err"
        /\ ret.err = <<"unknown header", data[1]>>
        /\ ret.trace = <<"from_u8">>
        /\ ret.header = <<>>
        /\ ret.body = <<>>

C6_Witness ==
    /\ call = "parse"
    /\ Len(data) = HEADER_SIZE - 1
    /\ data[1] = 18
    /\ ret.kind = "err"
    /\ ret.err = <<"unknown header", 18>>

\* C7: whenever parse returns a Rom for an image of 4096 + K bytes, the
\* header is the first 4096 bytes and the body the remaining K bytes of the
\* whole image in canonical form.
C7_BodyPassThrough ==
    (call = "parse" /\ ret.kind = "ok") =>
        /\ Len(data) >= 4096
        /\ ret.header = SubSeq(Canonical(data), 1, 4096)
        /\ Len(ret.body) = Len(data) - 4096
        /\ ret.body = SubSeq(Canonical(data), 4097, Len(data))

C7_Witness ==
    /\ call = "parse"
    /\ ret.kind = "ok"
    /\ data[1] = HEADER_BYTE_SWAPPED[1]
    /\ Len(ret.body) = 2
    /\ ret.body = <<data[HEADER_SIZE + 2], data[HEADER_SIZE + 1]>>
    /\ ret.body[1] # ret.body[2]

\* C8: InternalHeader::new succeeds exactly on 4096 bytes and fails with the
\* invalid-size error on every other length; every header that exists, that
\* of a parsed Rom included, owns 4096 bytes and its boot code has 4032.
C8_SizeInvariant ==
    /\ (call = "new" =>
            /\ ret.ok <=> (Len(data) = 4096)
            /\ ret.ok => ret.data = data
            /\ ~ret.ok => ret.err = <<"invalid header size", Len(data), 4096>>)
    /\ (call = "parse" /\ ret.kind = "ok" => Len(ret.header) = 4096)
    /\ (call \in {"accessors", "parse_accessors"} =>
            /\ Len(ret.header) = 4096
            /\ Len(ret.boot_code) = 4032)

C8_Witness ==
    /\ call = "new"
    /\ Len(data) = HEADER_SIZE + 1
    /\ ~ret.ok
    /\ ret.err = <<"invalid header size", HEADER_SIZE + 1, HEADER_SIZE>>

\* C9: for any buffer x, the Native normalisation leaves x unchanged, and
\* the ByteSwapped and the LittleEndian normalisation applied twice yield x.
C9_SelfInverse ==
    (call = "normalize") =>
        /\ ~ret.once.panic
        /\ ~ret.twice.panic
        /\ (ret.endian = "Native" => ret.once.data = data)
        /\ (ret.endian \in {"ByteSwapped", "Little"} => ret.twice.data = data)

\* C10: on a buffer of odd length classified ByteSwapped the normalisation
\* does not fail: it swaps every complete pair and leaves the last byte, and
\* parse goes on to the split and the header construction.
C10_OddLengthByteSwap ==
    /\ (/\ call = "normalize"
        /\ ret.endian = "ByteSwapped"
        /\ Len(data) % 2 = 1
        /\ data[1] = 55) =>
            /\ ~ret.once.panic
            /\ ret.once.data = ByteSwappedDump(data)
    /\ (/\ call = "parse"
        /\ Len(data) % 2 = 1
        /\ data[1] = 55) =>
            /\ Len(ret.trace) >= 3
            /\ ret.trace[3] = "split_off"

====
